---- MODULE Spec2Model ----
(***************************************************************************)
(* Model of fix_a11y_violations.py: the detector                           *)
(* has_onclick_without_keyboard, the rewriter fix_onclick_violations, and  *)
(* the per-file driver process_file / main.                                *)
(*                                                                         *)
(* Python str values are TLA+ strings; a list of lines is a sequence of    *)
(* strings.  String positions are 1-based here, line indices i, j are kept *)
(* 0-based as in the source (line i is lines[i + 1]).                      *)
(***************************************************************************)
EXTENDS Integers, Sequences, FiniteSets, TLC

VARIABLES content, phase, detected, det_trace, rw_trace, fixed_content,
          refixed_content,
          tree, files, cursor, fixed_count, results, processed, raised, pc

vars == <<content, phase, detected, det_trace, rw_trace, fixed_content,
          refixed_content,
          tree, files, cursor, fixed_count, results, processed, raised, pc>>

textVars == <<content, phase, detected, det_trace, rw_trace, fixed_content,
              refixed_content>>

mainVars == <<tree, files, cursor, fixed_count, results, processed, raised, pc>>

\* ------------------------------------------------------------------------
\* Bounds of the checked input space.
\* ------------------------------------------------------------------------
MaxGap == 10
MaxPad == 1
MaxAfter == 5
MaxFiles == 3

\* ------------------------------------------------------------------------
\* Program constants.
\* ------------------------------------------------------------------------
TagWindow == 10
AttrWindow == 5

\* ------------------------------------------------------------------------
\* Python string primitives.
\* ------------------------------------------------------------------------
Max(a, b) == IF a >= b THEN a ELSE b

Min(a, b) == IF a <= b THEN a ELSE b

MinOf(S) == CHOOSE x \in S : \A y \in S : x <= y

\* s[p] as a one-character string ("" outside the string).
CharAt(s, p) == IF p >= 1 /\ p <= Len(s) THEN SubSeq(s, p, p) ELSE ""

\* m in s
Contains(s, m) ==
    \E k \in 1..(Len(s) - Len(m) + 1) : SubSeq(s, k, k + Len(m) - 1) = m

\* s.find(m, from): least position >= from where m occurs, 0 when none.
Find(s, m, from) ==
    LET K == {k \in from..(Len(s) - Len(m) + 1) : SubSeq(s, k, k + Len(m) - 1) = m}
    IN  IF K = {} THEN 0 ELSE MinOf(K)

StartsWith(s, p) == Len(s) >= Len(p) /\ SubSeq(s, 1, Len(p)) = p

\* Whitespace as matched by \s and removed by str.strip().
Whitespace == {" ", "\t", "\r", "\f"}

\* Characters matched by \w (the other side of \b).
WordChars ==
    {"a","b","c","d","e","f","g","h","i","j","k","l","m","n","o","p","q","r",
     "s","t","u","v","w","x","y","z","A","B","C","D","E","F","G","H","I","J",
     "K","L","M","N","O","P","Q","R","S","T","U","V","W","X","Y","Z","0","1",
     "2","3","4","5","6","7","8","9","_"}

\* Number of leading whitespace characters of s.
RECURSIVE LeadingCount(_, _)
LeadingCount(s, n) ==
    IF n < Len(s) /\ CharAt(s, n + 1) \in Whitespace
    THEN LeadingCount(s, n + 1) ELSE n

RECURSIVE TrailingCount(_, _)
TrailingCount(s, n) ==
    IF n < Len(s) /\ CharAt(s, Len(s) - n) \in Whitespace
    THEN TrailingCount(s, n + 1) ELSE n

\* re.match(r'^(\s*)', s).group(1): the pattern matches every string.
LeadingWhitespace(s) == SubSeq(s, 1, LeadingCount(s, 0))

\* s.strip()
Strip(s) ==
    LET a == LeadingCount(s, 0)
    IN  IF a = Len(s) THEN "" ELSE SubSeq(s, a + 1, Len(s) - TrailingCount(s, 0))

\* content.split('\n')
RECURSIVE SplitFrom(_, _)
SplitFrom(s, from) ==
    LET p == Find(s, "\n", from)
    IN  IF p = 0 THEN <<SubSeq(s, from, Len(s))>>
        ELSE <<SubSeq(s, from, p - 1)>> \o SplitFrom(s, p + 1)

Split(s) == SplitFrom(s, 1)

\* '\n'.join(lines)
RECURSIVE Join(_)
Join(ls) ==
    IF Len(ls) = 0 THEN ""
    ELSE IF Len(ls) = 1 THEN ls[1]
    ELSE ls[1] \o "\n" \o Join(Tail(ls))

\* ------------------------------------------------------------------------
\* Detector: has_onclick_without_keyboard.
\* ------------------------------------------------------------------------
\* '<button' in l or '<a ' in l or '<a>' in l
DetInteractive(l) ==
    Contains(l, "<button") \/ Contains(l, "<a ") \/ Contains(l, "<a>")

\* '<div' in l or '<span' in l or '<li' in l or '<td' in l or '<tr' in l
DetNonInteractive(l) ==
    \/ Contains(l, "<div") \/ Contains(l, "<span") \/ Contains(l, "<li")
    \/ Contains(l, "<td") \/ Contains(l, "<tr")

\* range(i, max(0, i-10), -1): j runs from i down, the stop value excluded.
ScanStop(i) == Max(0, i - TagWindow)

\* The backward loop of the detector, from j down to (not including) stop.
RECURSIVE DetScan(_, _, _)
DetScan(lines, j, stop) ==
    IF j <= stop THEN "None"
    ELSE IF DetInteractive(lines[j + 1]) THEN "button_or_link"
    ELSE IF DetNonInteractive(lines[j + 1]) THEN "needs_fix"
    ELSE DetScan(lines, j - 1, stop)

tag_start(lines, i) == DetScan(lines, i, ScanStop(i))

\* range(max(0, i-5), min(len(lines), i+5))
AttrRange(lines, i) ==
    Max(0, i - AttrWindow)..(Min(Len(lines), i + AttrWindow) - 1)

has_keyboard(lines, i) ==
    \E j \in AttrRange(lines, i) :
        Contains(lines[j + 1], "onKeyDown=") \/ Contains(lines[j + 1], "onKeyPress=")

\* Whether the outer loop returns True at line i.
DetFlags(lines, i) ==
    /\ Contains(lines[i + 1], "onClick=")
    /\ tag_start(lines, i) = "needs_fix"
    /\ ~has_keyboard(lines, i)

has_onclick_without_keyboard(text) ==
    LET lines == Split(text)
    IN  \E i \in 0..(Len(lines) - 1) : DetFlags(lines, i)

\* What the outer loop did at each line before it returned: "skip" for a
\* line without the click marker, the value of tag_start for a click line,
\* "unvisited" for the lines after the one that returned True.
DetectorTrace(text) ==
    LET lines == Split(text)
    IN  [k \in 1..Len(lines) |->
            IF \E i \in 0..(k - 2) : DetFlags(lines, i) THEN "unvisited"
            ELSE IF ~Contains(lines[k], "onClick=") THEN "skip"
            ELSE tag_start(lines, k - 1)]

\* ------------------------------------------------------------------------
\* Rewriter: fix_onclick_violations.
\* ------------------------------------------------------------------------
NonInteractiveTags ==
    {"div", "span", "li", "td", "tr", "th", "p", "section", "article", "main",
     "nav", "header", "footer"}

\* re.search(r'<(div|span|li|td|tr|th|p|section|article|main|nav|header|footer)', l)
RwNonInteractive(l) == \E t \in NonInteractiveTags : Contains(l, "<" \o t)

\* re.search(r'<(button|a)\b', l): the tag name is followed by a non-word
\* character or by the end of the line.
RwInteractive(l) ==
    \E t \in {"button", "a"} :
        \E k \in 1..(Len(l) - Len(t)) :
            /\ SubSeq(l, k, k + Len(t)) = "<" \o t
            /\ CharAt(l, k + Len(t) + 1) \notin WordChars

\* The backward loop of the rewriter, from j down to (not including) stop.
RECURSIVE RwScan(_, _, _)
RwScan(lines, j, stop) ==
    IF j <= stop THEN [is_non_interactive |-> FALSE, tag_indent |-> ""]
    ELSE IF RwNonInteractive(lines[j + 1])
         THEN [is_non_interactive |-> TRUE,
               tag_indent |-> LeadingWhitespace(lines[j + 1])]
    ELSE IF RwInteractive(lines[j + 1])
         THEN [is_non_interactive |-> FALSE, tag_indent |-> ""]
    ELSE RwScan(lines, j - 1, stop)

\* The regular expression  onClick=\{([^}]*(?:\{[^}]*\})*[^}]*)\}  as the
\* backtracking matcher runs it.  Positions returned are those of the final
\* '}' of the match, 0 meaning no match.
\*   [^}]*\}  at r: the run of non-'}' characters must end at a '}'.
MatchTail(s, r) == Find(s, "}", r)

\*   \{[^}]*\}  at r
MatchGroup(s, r) == IF CharAt(s, r) = "{" THEN Find(s, "}", r + 1) ELSE 0

\*   (?:\{[^}]*\})*[^}]*\}  at r: one more group first (greedy), else none.
RECURSIVE MatchRest(_, _)
MatchRest(s, r) ==
    LET g == MatchGroup(s, r)
        viaGroup == IF g = 0 THEN 0 ELSE MatchRest(s, g + 1)
    IN  IF viaGroup # 0 THEN viaGroup ELSE MatchTail(s, r)

\* Length of the longest run of non-'}' characters starting at p.
NotCloseRun(s, p) ==
    LET e == Find(s, "}", p) IN IF e = 0 THEN Len(s) - p + 1 ELSE e - p

\*   ([^}]*(?:\{[^}]*\})*[^}]*)\}  at q, the first [^}]* taking n1 characters;
\*   greedy: the longest n1 is tried first, then shorter ones.
RECURSIVE MatchAt(_, _, _)
MatchAt(s, q, n1) ==
    LET e == MatchRest(s, q + n1)
    IN  IF e # 0 THEN e
        ELSE IF n1 = 0 THEN 0
        ELSE MatchAt(s, q, n1 - 1)

\* re.search: the leftmost start position that matches.
RECURSIVE OnclickSearch(_, _)
OnclickSearch(s, from) ==
    LET p == Find(s, "onClick={", from)
        q == p + 9
        e == MatchAt(s, q, NotCloseRun(s, q))
    IN  IF p = 0 THEN [matched |-> FALSE, group1 |-> ""]
        ELSE IF e # 0 THEN [matched |-> TRUE, group1 |-> SubSeq(s, q, e - 1)]
        ELSE OnclickSearch(s, p + 1)

onclick_match(line) == OnclickSearch(line, 1)

HandlerHead ==
    "onKeyDown={(e) => { if (e.key === 'Enter' || e.key === ' ') { e.preventDefault(); "

HandlerFoot == " } }}"

\* onclick_handler.split('=>', 1)[1].strip() if '=>' in onclick_handler
\* else onclick_handler
func_call(h) ==
    IF Contains(h, "=>")
    THEN Strip(SubSeq(h, Find(h, "=>", 1) + 2, Len(h)))
    ELSE h

keyboard_handler(h) ==
    IF StartsWith(h, "()") \/ StartsWith(h, "(e)")
    THEN HandlerHead \o func_call(h) \o HandlerFoot
    ELSE HandlerHead \o "(" \o h \o ")(e)" \o HandlerFoot

has_role(lines, i) ==
    \E j \in AttrRange(lines, i) : Contains(lines[j + 1], "role=")

has_tabindex(lines, i) ==
    \E j \in AttrRange(lines, i) : Contains(lines[j + 1], "tabIndex=")

\* The lines appended after the click line when the handler was extracted.
\* re.match(r'^(\s*)', line) matches every line, so indent_str is always the
\* click line's own leading whitespace; the else branch (tag_indent + '  ')
\* is never taken.
Synthesized(lines, i, h) ==
    LET indent_str == LeadingWhitespace(lines[i + 1])
    IN  <<indent_str \o keyboard_handler(h)>>
        \o (IF has_role(lines, i) THEN <<>> ELSE <<indent_str \o "role=\"button\"">>)
        \o (IF has_tabindex(lines, i) THEN <<>> ELSE <<indent_str \o "tabIndex={0}">>)

\* The iteration without  result.append(line)  before the synthesized lines.
IterationDropsLine(lines, i) ==
    LET line == lines[i + 1]
        examined == Contains(line, "onClick=") /\ ~Contains(line, "onKeyDown=")
        scan == RwScan(lines, i, ScanStop(i))
        nonint == examined /\ scan.is_non_interactive
        m == IF nonint THEN onclick_match(line) ELSE [matched |-> FALSE, group1 |-> ""]
    IN  [examined |-> examined,
         is_non_interactive |-> nonint,
         matched |-> m.matched,
         group1 |-> m.group1,
         appended |-> IF m.matched
                      THEN Synthesized(lines, i, Strip(m.group1))
                      ELSE <<line>>]

\* One iteration of the while loop at cursor i: what it tested and the lines
\* it appended to result.
Iteration(lines, i) ==
    LET line == lines[i + 1]
        examined == Contains(line, "onClick=") /\ ~Contains(line, "onKeyDown=")
        scan == RwScan(lines, i, ScanStop(i))
        nonint == examined /\ scan.is_non_interactive
        m == IF nonint THEN onclick_match(line) ELSE [matched |-> FALSE, group1 |-> ""]
    IN  [examined |-> examined,
         is_non_interactive |-> nonint,
         matched |-> m.matched,
         group1 |-> m.group1,
         appended |-> IF m.matched
                      THEN <<line>> \o Synthesized(lines, i, Strip(m.group1))
                      ELSE <<line>>]

\* The while loop: result after the iterations i, i+1, ..., len(lines)-1.
RECURSIVE RewriteLoop(_, _, _)
RewriteLoop(lines, i, result) ==
    IF i >= Len(lines) THEN result
    ELSE RewriteLoop(lines, i + 1, result \o Iteration(lines, i).appended)

fix_onclick_violations(text) == Join(RewriteLoop(Split(text), 0, <<>>))

RewriterTrace(text) ==
    LET lines == Split(text)
    IN  [k \in 1..Len(lines) |-> Iteration(lines, k - 1)]

\* ------------------------------------------------------------------------
\* Input texts the functions are applied to.
\* ------------------------------------------------------------------------
ClickLines ==
    {"<div onClick={() => doThing()}>",
     "  <div onClick={handleClick}>",
     "<button onClick={x}>",
     "<li onClick={y} role=\"button\" tabIndex={0} onKeyDown={k}>",
     "<div onClick={h} onKeyPress={k}>",
     "<p onClick={h}>",
     "  onClick={(e) => go(e)}",
     "<button onClick={h}><span>x</span>",
     "<div onClick={() => { foo() }}>",
     "<div onClick={() => { a({b: 1}) }}>",
     "<div onClick={h",
     "<a onClick={go}>"}

OtherLines ==
    {"", "<div", "<a", "<a href=\"#\"", "<section>", "<button",
     "  role=\"button\"", "  tabIndex={0}", "  onKeyDown={k}", "</div>"}

TagLines == {"<div", "  <span>", "<button", "<a", "<section>", "<a href=\"#\""}

MiddleLines == {"", "<a", "  role=\"link\""}

AttrClickLines == {"  onClick={h}", "  onClick={(e) => go(e)}", "<p onClick={h}>"}

AttrLines == {"  role=\"button\"", "  tabIndex={0}", "  onKeyPress={k}"}

\* n empty lines.
Pad(n) == [k \in 1..n |-> ""]

\* Texts of one or two lines.
ShortTexts ==
    LET L == ClickLines \cup OtherLines
    IN  {<<a>> : a \in L} \cup {<<a, b>> : a \in L, b \in L}

\* A tag-open line, a gap of empty lines, one more line, then a click line.
WindowTexts ==
    {Pad(a) \o <<t>> \o Pad(g) \o <<m, c>> :
        a \in 0..MaxPad, t \in TagLines, g \in 0..MaxGap, m \in MiddleLines,
        c \in AttrClickLines}

\* A click line under its tag, a gap, then an attribute line.
AfterTexts ==
    {Pad(a) \o <<"<div">> \o <<c>> \o Pad(g) \o <<r>> :
        a \in 0..MaxPad, c \in AttrClickLines, g \in 0..MaxAfter, r \in AttrLines}

\* An empty line, then two click lines.
PairTexts == {<<"", a, b>> : a \in ClickLines, b \in ClickLines}

Inputs == {Join(ls) : ls \in ShortTexts \cup WindowTexts \cup AfterTexts \cup PairTexts}

\* ------------------------------------------------------------------------
\* The functions applied to a text: detector, rewriter, rewriter again.
\* ------------------------------------------------------------------------
MainIdle ==
    /\ tree = <<>>
    /\ files = <<>>
    /\ cursor = 0
    /\ fixed_count = 0
    /\ results = <<>>
    /\ processed = <<>>
    /\ raised = <<>>
    /\ pc = "idle"

Init ==
    /\ content \in Inputs
    /\ phase = "input"
    /\ detected = FALSE
    /\ det_trace = <<>>
    /\ rw_trace = <<>>
    /\ fixed_content = ""
    /\ refixed_content = ""
    /\ MainIdle

Detect ==
    /\ phase = "input"
    /\ detected' = has_onclick_without_keyboard(content)
    /\ det_trace' = DetectorTrace(content)
    /\ phase' = "detected"
    /\ UNCHANGED <<content, rw_trace, fixed_content, refixed_content>>
    /\ UNCHANGED mainVars

Fix ==
    /\ phase = "detected"
    /\ fixed_content' = fix_onclick_violations(content)
    /\ rw_trace' = RewriterTrace(content)
    /\ phase' = "fixed"
    /\ UNCHANGED <<content, detected, det_trace, refixed_content>>
    /\ UNCHANGED mainVars

Refix ==
    /\ phase = "fixed"
    /\ refixed_content' = fix_onclick_violations(fixed_content)
    /\ phase' = "refixed"
    /\ UNCHANGED <<content, detected, det_trace, rw_trace, fixed_content>>
    /\ UNCHANGED mainVars

Next == Detect \/ Fix \/ Refix

Spec == Init /\ [][Next]_vars

\* ------------------------------------------------------------------------
\* The driver: find_tsx_files, process_file, main.
\* ------------------------------------------------------------------------
TreePaths ==
    {"src/App.tsx", "src/Item.tsx", "src/util.ts", "node_modules/pkg/index.ts",
     "src/distance.ts", "src/notes.md"}

FileTexts ==
    {"const x = 1",
     "x\n<div onClick={h}>",
     "x\n<button onClick={x}>",
     "x\n<div onClick={h"}

\* Where an exception is raised while a file is processed ("none": nowhere).
FailKinds == {"none", "read", "detect", "rewrite", "write"}

EndsWith(s, p) == Len(s) >= Len(p) /\ SubSeq(s, Len(s) - Len(p) + 1, Len(s)) = p

\* 'node_modules' not in str(f) and '.next' not in str(f) and 'dist' not in str(f)
NotExcluded(f) ==
    ~Contains(f, "node_modules") /\ ~Contains(f, ".next") /\ ~Contains(f, "dist")

\* The sequences that list every element of the set S once.
Orderings(S) ==
    {q \in [1..Cardinality(S) -> S] : \A a, b \in 1..Cardinality(S) : q[a] = q[b] => a = b}

\* find_tsx_files: the '**/*.tsx' matches, then the '**/*.ts' matches, each
\* in the order the directory walk yields them, then the exclusion filter.
find_tsx_files(disk) ==
    LET tsx == {f \in DOMAIN disk : EndsWith(f, ".tsx")}
        ts  == {f \in DOMAIN disk : EndsWith(f, ".ts")}
    IN  {SelectSeq(a \o b, NotExcluded) : a \in Orderings(tsx), b \in Orderings(ts)}

\* Lines 141-145: compare, write back, report.  A failed write leaves the
\* file as it was or, when it was already opened for writing, truncated.
write_back(file_path, disk, fail, truncated, text, fixed) ==
    IF fixed = text
    THEN [exc |-> "", ret |-> <<FALSE, "No changes needed">>, disk |-> disk]
    ELSE IF fail = "write"
    THEN [exc |-> "write failed", ret |-> <<FALSE, "">>,
          disk |-> IF truncated THEN [disk EXCEPT ![file_path] = ""] ELSE disk]
    ELSE [exc |-> "", ret |-> <<TRUE, "Fixed">>,
          disk |-> [disk EXCEPT ![file_path] = fixed]]

\* The body of the try block of process_file.  exc is the message of the
\* exception raised ("" when the body returned), ret the returned pair, disk
\* the file contents afterwards.
process_file_body(file_path, disk, fail, truncated) ==
    IF fail = "read"
    THEN [exc |-> "read failed", ret |-> <<FALSE, "">>, disk |-> disk]
    ELSE IF fail = "detect"
    THEN [exc |-> "detect failed", ret |-> <<FALSE, "">>, disk |-> disk]
    ELSE IF ~has_onclick_without_keyboard(disk[file_path])
    THEN [exc |-> "", ret |-> <<FALSE, "No violations found">>, disk |-> disk]
    ELSE IF fail = "rewrite"
    THEN [exc |-> "rewrite failed", ret |-> <<FALSE, "">>, disk |-> disk]
    ELSE write_back(file_path, disk, fail, truncated, disk[file_path],
                    fix_onclick_violations(disk[file_path]))

\* The clause narrowed to  except OSError : only failed reads and writes are
\* caught.
except_oserror_only(b) ==
    IF b.exc \in {"read failed", "write failed"}
    THEN [ret |-> <<FALSE, "Error: " \o b.exc>>, exc |-> b.exc,
          escaped |-> FALSE, disk |-> b.disk]
    ELSE [ret |-> b.ret, exc |-> b.exc, escaped |-> b.exc # "", disk |-> b.disk]

\* except Exception as e: return False, f"Error: {str(e)}"
\* b is the outcome of the try block; escaped tells whether the exception
\* left process_file.
except_clause(b) ==
    IF b.exc # ""
    THEN [ret |-> <<FALSE, "Error: " \o b.exc>>, exc |-> b.exc,
          escaped |-> FALSE, disk |-> b.disk]
    ELSE [ret |-> b.ret, exc |-> "", escaped |-> FALSE, disk |-> b.disk]

process_file(file_path, disk, fail, truncated) ==
    except_clause(process_file_body(file_path, disk, fail, truncated))

\* The directory trees: at most MaxFiles files, each with one of the texts.
Trees ==
    UNION {[P -> FileTexts] : P \in {Q \in SUBSET TreePaths : Cardinality(Q) <= MaxFiles}}

TextIdle ==
    /\ content = ""
    /\ phase = "idle"
    /\ detected = FALSE
    /\ det_trace = <<>>
    /\ rw_trace = <<>>
    /\ fixed_content = ""
    /\ refixed_content = ""

MainInit ==
    /\ tree \in Trees
    /\ files = <<>>
    /\ cursor = 0
    /\ fixed_count = 0
    /\ results = <<>>
    /\ processed = <<>>
    /\ raised = <<>>
    /\ pc = "start"
    /\ TextIdle

\* files = find_tsx_files(root_dir); fixed_count = 0
Scan ==
    /\ pc = "start"
    /\ files' \in find_tsx_files(tree)
    /\ pc' = "processing"
    /\ UNCHANGED <<tree, cursor, fixed_count, results, processed, raised>>
    /\ UNCHANGED textVars

\* One iteration of  for file_path in files: process_file, then the count.
\* An exception that leaves process_file ends main.
ProcessNext ==
    /\ pc = "processing"
    /\ cursor < Len(files)
    /\ \E fail \in FailKinds, truncated \in BOOLEAN :
          \E r \in {process_file(files[cursor + 1], tree, fail, truncated)} :
              /\ tree' = r.disk
              /\ IF r.escaped
                 THEN /\ pc' = "aborted"
                      /\ UNCHANGED <<cursor, fixed_count, results, processed, raised>>
                 ELSE /\ results' = Append(results, r.ret)
                      /\ processed' = Append(processed, files[cursor + 1])
                      /\ raised' = Append(raised, r.exc)
                      /\ fixed_count' = IF r.ret[1] THEN fixed_count + 1 ELSE fixed_count
                      /\ cursor' = cursor + 1
                      /\ pc' = pc
    /\ UNCHANGED files
    /\ UNCHANGED textVars

\* The loop is over: print the count.
Finish ==
    /\ pc = "processing"
    /\ cursor = Len(files)
    /\ pc' = "done"
    /\ UNCHANGED <<tree, files, cursor, fixed_count, results, processed, raised>>
    /\ UNCHANGED textVars

MainNext == Scan \/ ProcessNext \/ Finish

MainSpec == MainInit /\ [][MainNext]_vars

\* ------------------------------------------------------------------------
\* Vocabulary of the claims (the specification's own terms).
\* ------------------------------------------------------------------------
InLines == Split(content)

Rewritten == phase \in {"fixed", "refixed"}

IsClickLine(l) == Contains(l, "onClick=")

HasKeyboardMarker(l) == Contains(l, "onKeyDown=") \/ Contains(l, "onKeyPress=")

\* interactive tag markers: <button, <a , <a>
HasInteractiveMarker(l) ==
    Contains(l, "<button") \/ Contains(l, "<a ") \/ Contains(l, "<a>")

\* opening tags for div, span, li, td, tr, th, p, section, article, main,
\* nav, header, footer
HasNonInteractiveMarker(l) ==
    \E t \in {"div", "span", "li", "td", "tr", "th", "p", "section", "article",
              "main", "nav", "header", "footer"} : Contains(l, "<" \o t)

\* The opening tag of a <button> or <a> element, the tag name possibly
\* ending its line.
OpensInteractiveElement(l) ==
    \E t \in {"<button", "<a"} :
        \E k \in 1..(Len(l) - Len(t) + 1) :
            /\ SubSeq(l, k, k + Len(t) - 1) = t
            /\ CharAt(l, k + Len(t)) \notin WordChars

MaxOf(S) == CHOOSE x \in S : \A y \in S : x >= y

\* The nearest line index in lo..i whose line satisfies one of the two tests
\* (-1 when there is none).
NearestTag(ls, i, lo, A(_), B(_)) ==
    LET J == {j \in lo..i : A(ls[j + 1]) \/ B(ls[j + 1])}
    IN  IF J = {} THEN -1 ELSE MaxOf(J)

\* The 10-line window as the specification states it: max(0, i-10) <= j <= i.
WindowLow(i) == Max(0, i - 10)

\* The nearest tag-open line within the window is a non-interactive tag.
EnclosedByNonInteractive(ls, i) ==
    LET j == NearestTag(ls, i, WindowLow(i), HasInteractiveMarker, HasNonInteractiveMarker)
    IN  j # -1 /\ ~HasInteractiveMarker(ls[j + 1])

\* [max(0, i-5), min(len, i+5))
NearLines(ls, i) == Max(0, i - 5)..(Min(Len(ls), i + 5) - 1)

\* Position of the '}' that closes the brace opened before p (0: none).
RECURSIVE ClosePos(_, _, _)
ClosePos(s, p, d) ==
    IF p > Len(s) THEN 0
    ELSE IF CharAt(s, p) = "}" THEN (IF d = 1 THEN p ELSE ClosePos(s, p + 1, d - 1))
    ELSE IF CharAt(s, p) = "{" THEN ClosePos(s, p + 1, d + 1)
    ELSE ClosePos(s, p + 1, d)

\* Deepest brace nesting reached in s[p..e-1], starting at depth d.
RECURSIVE NestDepth(_, _, _, _)
NestDepth(s, p, e, d) ==
    IF p >= e THEN d
    ELSE LET c == CharAt(s, p)
             d2 == IF c = "{" THEN d + 1 ELSE IF c = "}" THEN d - 1 ELSE d
         IN  Max(d, NestDepth(s, p + 1, e, d2))

\* The argument of onClick={...}: the text between the attribute's opening
\* brace and its matching closing brace, and how deep braces nest inside it.
ClickArg(l) ==
    LET p == Find(l, "onClick={", 1)
        q == p + 9
        e == IF p = 0 THEN 0 ELSE ClosePos(l, q, 1)
    IN  [balanced |-> e # 0,
         text |-> IF e # 0 THEN SubSeq(l, q, e - 1) ELSE "",
         nesting |-> IF e # 0 THEN NestDepth(l, q, e, 0) ELSE 0]

Extractable(l) == ClickArg(l).balanced /\ ClickArg(l).nesting <= 1

\* A synthesized line: indentation, then the keyboard handler, the role
\* attribute or the tabIndex attribute.
IsSynthesizedLine(l) ==
    LET body == SubSeq(l, LeadingCount(l, 0) + 1, Len(l))
    IN  \/ StartsWith(body, "onKeyDown={(e) => {")
        \/ body = "role=\"button\""
        \/ body = "tabIndex={0}"

\* ------------------------------------------------------------------------
\* Claims.
\* ------------------------------------------------------------------------

\* C1: the rewriter is idempotent: applied to its own output it returns that
\* output unchanged (no further line is inserted).
C1_Idempotent == phase = "refixed" => refixed_content = fixed_content

\* C2: detector completeness: when some click line has a non-interactive tag
\* (any of the thirteen) as nearest tag-open line within the 10-line window
\* and no keyboard marker in [max(0,i-5), min(len,i+5)), the detector
\* returns true.
C2_DetectorComplete ==
    phase # "input" =>
        ((\E i \in 0..(Len(InLines) - 1) :
              /\ IsClickLine(InLines[i + 1])
              /\ EnclosedByNonInteractive(InLines, i)
              /\ \A j \in NearLines(InLines, i) : ~HasKeyboardMarker(InLines[j + 1]))
         => detected)

\* C3: detector soundness: when every click line belongs to a <button> or
\* <a> element (the nearest tag-open line at or above it opens one, the tag
\* name possibly ending its line), the detector returns false.
C3_DetectorSound ==
    phase # "input" =>
        ((\A i \in 0..(Len(InLines) - 1) :
              IsClickLine(InLines[i + 1]) =>
                  LET j == NearestTag(InLines, i, 0, OpensInteractiveElement,
                                      HasNonInteractiveMarker)
                  IN  j # -1 /\ OpensInteractiveElement(InLines[j + 1]))
         => ~detected)

\* The lines the specification expects for a qualifying click line i.
ExpectedShape(ls, i, out) ==
    LET ind == LeadingWhitespace(ls[i + 1])
        role == IF \E j \in NearLines(ls, i) : Contains(ls[j + 1], "role=")
                THEN <<>> ELSE <<ind \o "role=\"button\"">>
        tab == IF \E j \in NearLines(ls, i) : Contains(ls[j + 1], "tabIndex=")
               THEN <<>> ELSE <<ind \o "tabIndex={0}">>
    IN  /\ Len(out) = 2 + Len(role) + Len(tab)
        /\ out[1] = ls[i + 1]
        /\ StartsWith(out[2], ind \o "onKeyDown=")
        /\ SubSeq(out, 3, Len(out)) = role \o tab

\* C4: every qualifying violation line (click marker, no keyboard marker on
\* the line, non-interactive enclosing tag, extractable handler), at any
\* index including 0, is emitted followed by one onKeyDown= line, a role
\* line exactly when no role= is near, a tabIndex line exactly when no
\* tabIndex= is near, in that order and with the click line's indentation.
C4_InsertionShape ==
    Rewritten =>
        \A i \in 0..(Len(InLines) - 1) :
            (/\ IsClickLine(InLines[i + 1])
             /\ ~HasKeyboardMarker(InLines[i + 1])
             /\ EnclosedByNonInteractive(InLines, i)
             /\ Extractable(InLines[i + 1]))
            => ExpectedShape(InLines, i, rw_trace[i + 1].appended)

\* C5: a line that contains a keyboard marker (onKeyDown= or onKeyPress=) is
\* emitted unchanged with nothing inserted after it.
C5_KeyboardLineUntouched ==
    Rewritten =>
        \A i \in 0..(Len(InLines) - 1) :
            HasKeyboardMarker(InLines[i + 1])
            => rw_trace[i + 1].appended = <<InLines[i + 1]>>

\* C6: when the first tag-open line the backward scan meets contains an
\* interactive tag marker, the rewriter copies the click line and inserts
\* nothing, also when that line has a non-interactive marker too; so lines
\* are inserted after a click line only if the detector's scan marks it
\* needs_fix.
C6_InteractiveExempt ==
    Rewritten =>
        \A i \in 0..(Len(InLines) - 1) :
            IsClickLine(InLines[i + 1]) =>
                LET j == NearestTag(InLines, i, ScanStop(i) + 1, HasInteractiveMarker,
                                    HasNonInteractiveMarker)
                    out == rw_trace[i + 1].appended
                IN  /\ (j # -1 /\ HasInteractiveMarker(InLines[j + 1]))
                        => out = <<InLines[i + 1]>>
                    /\ Len(out) > 1 => tag_start(InLines, i) = "needs_fix"

\* The detector's classification had its scan covered max(0,i-10) <= j <= i.
InclusiveDetScan(ls, i) ==
    LET j == NearestTag(ls, i, WindowLow(i), DetInteractive, DetNonInteractive)
    IN  IF j = -1 THEN "None"
        ELSE IF DetInteractive(ls[j + 1]) THEN "button_or_link"
        ELSE "needs_fix"

\* The rewriter's classification had its scan covered max(0,i-10) <= j <= i.
InclusiveRwScan(ls, i) ==
    LET j == NearestTag(ls, i, WindowLow(i), RwNonInteractive, RwInteractive)
    IN  j # -1 /\ RwNonInteractive(ls[j + 1])

\* C9: for a click line at index i the detector and the rewriter examine
\* every j with max(0, i-10) <= j <= i, nearest first, and stop at the first
\* tag-open match: a tag-open on the click line at i = 0, at line index 0, or
\* exactly 10 lines above the click line is found.
C9_WindowBounds ==
    /\ phase # "input" =>
           \A k \in 1..Len(det_trace) :
               det_trace[k] \notin {"skip", "unvisited"}
               => det_trace[k] = InclusiveDetScan(InLines, k - 1)
    /\ Rewritten =>
           \A k \in 1..Len(rw_trace) :
               rw_trace[k].examined
               => rw_trace[k].is_non_interactive = InclusiveRwScan(InLines, k - 1)

\* C10: handler extraction is brace-balanced: with at most one level of
\* nested braces the extracted expression is the text between the opening
\* brace and its matching closing brace; with unbalanced or deeper braces
\* nothing is extracted and the line is copied with nothing inserted.
C10_BalancedExtraction ==
    Rewritten =>
        \A k \in 1..Len(rw_trace) :
            rw_trace[k].is_non_interactive =>
                LET a == ClickArg(InLines[k])
                IN  IF a.balanced /\ a.nesting <= 1
                    THEN rw_trace[k].matched /\ rw_trace[k].group1 = a.text
                    ELSE ~rw_trace[k].matched /\ rw_trace[k].appended = <<InLines[k]>>

RECURSIVE SumOver(_, _)
SumOver(c, S) ==
    IF S = {} THEN 0
    ELSE LET x == CHOOSE y \in S : TRUE IN c[x] + SumOver(c, S \ {x})

\* C8: the rewriter only inserts: the output lines are the input lines, in
\* order and unaltered, with runs of synthesized lines inserted, each run
\* directly after an input line that contains the click marker; a text
\* without click marker is returned as it is.
C8_OnlyInserts ==
    Rewritten =>
        LET in == InLines
            out == Split(fixed_content)
            clicks == {k \in 1..Len(in) : IsClickLine(in[k])}
        IN  /\ \E c \in [clicks -> 0..3] :
                  /\ Len(out) = Len(in) + SumOver(c, clicks)
                  /\ \A k \in 1..Len(in) :
                         out[k + SumOver(c, {x \in clicks : x < k})] = in[k]
                  /\ \A k \in clicks : \A d \in 1..c[k] :
                         IsSynthesizedLine(out[k + SumOver(c, {x \in clicks : x < k}) + d])
            /\ clicks = {} => fixed_content = content

\* C8 happens: a text with two click lines, lines inserted after one or both.
C8_Witness ==
    /\ phase = "fixed"
    /\ Cardinality({k \in 1..Len(InLines) : IsClickLine(InLines[k])}) = 2
    /\ Len(Split(fixed_content)) > Len(InLines) + 3

\* C7: per-file failure isolation: an exception while a file is processed
\* gives that file the result (False, "Error: ..."), never leaves
\* process_file, and the later files are still processed, in discovery
\* order; the fixed count is the number of files that returned fixed.
C7_FailureIsolation ==
    /\ pc # "aborted"
    /\ Len(results) = cursor
    /\ Len(processed) = cursor
    /\ Len(raised) = cursor
    /\ cursor <= Len(files)
    /\ \A k \in 1..cursor :
           /\ processed[k] = files[k]
           /\ raised[k] # "" => results[k] = <<FALSE, "Error: " \o raised[k]>>
    /\ fixed_count = Cardinality({k \in 1..cursor : results[k][1]})
    /\ pc = "done" => cursor = Len(files)

\* C7 happens: the run ended, a file failed and a later file was still fixed.
C7_Witness ==
    /\ pc = "done"
    /\ \E k \in 1..Len(results) : \E k2 \in (k + 1)..Len(results) :
           raised[k] # "" /\ results[k2][1]

====
